---- MODULE Spec2Model ----
(***************************************************************************)
(* A model of the eBPF practice programs of this repository:               *)
(*   chapter02/hello-tail.py               tail-call dispatch table        *)
(*   chapter04/hello-buffer-config.py      config store + per-CPU perf     *)
(*                                         buffer                          *)
(*   chapter04/hello-ring-buffer-config.py config store + ring buffer      *)
(* Each program has its own specification (SpecTail, SpecCfg); the         *)
(* variables of the other program keep their initial values.               *)
(*                                                                         *)
(* Machine integers.  TLC's integers are 32-bit signed, so a u64 is kept   *)
(* as four 16-bit limbs and a u32 as two (least significant first); an     *)
(* int (32-bit signed) is an ordinary integer in -2^31 .. 2^31-1.          *)
(***************************************************************************)
EXTENDS Integers, Sequences, FiniteSets, TLC

Limb == 2^16

\* The u64 whose value is the small natural n (n < 2^16).
U64(n) == <<n, 0, 0, 0>>

\* C conversion u64 -> int: the low 32 bits, read as two's complement.
ToInt32(lo, hi) == IF hi >= Limb \div 2 THEN (hi - Limb) * Limb + lo ELSE hi * Limb + lo

\* C conversion int -> u32 (the 32 bits unchanged), as limbs <<lo, hi>>.
ToU32(n) == IF n >= 0 THEN <<n % Limb, n \div Limb>>
            ELSE <<n % Limb, ((n - (n % Limb)) \div Limb) + Limb>>

(***************************************************************************)
(* chapter02/hello-tail.py                                                 *)
(***************************************************************************)

\* BPF_PROG_ARRAY(syscall, 500): the number of slots.
TableSize == 500

\* The most firings of the sys_enter hook in one run of the model.
MaxFirings == 2

\* A slot that holds no program FD.
Empty == "empty"

\* exec_fn / timer_fn overrides in the order the program writes them.
Overrides == << [op |-> 59,  fn |-> "hello_exec"],
                [op |-> 222, fn |-> "hello_timer"],
                [op |-> 223, fn |-> "hello_timer"],
                [op |-> 224, fn |-> "hello_timer"],
                [op |-> 225, fn |-> "hello_timer"],
                [op |-> 226, fn |-> "hello_timer"] >>

\* Values of ctx->args[1] (u64) the hook is fired with: plain syscall numbers,
\* the table edge, and values whose upper bits or sign matter to the int cast.
Args1 == { U64(7), U64(59), U64(222), U64(223), U64(226), U64(499), U64(500),
           <<59, 0, 1, 0>>,                   \* 2^32 + 59
           <<65535, 65535, 65535, 65535>>,    \* (u64)-1
           <<0, 32768, 0, 0>> }               \* 2^31

VARIABLES tpc, fill_i, ov_k, loaded, attached, prog_array, fired, last

tailVars == <<tpc, fill_i, ov_k, loaded, attached, prog_array, fired, last>>

\* The state of the chapter04 programs (described with their model below).
VARIABLES prog, cpc, config, kattached, opened, perf, ring, delivered, nev, lastEv,
          polling, npoll, accepted, inflight

cfgVars == <<prog, cpc, config, kattached, opened, perf, ring, delivered, nev, lastEv,
             polling, npoll, accepted, inflight>>

\* The state of hello-map.py (described with its model below).
VARIABLES mloaded, counter_table, cu, invoked, completed, mret, dumps,
          entries, overlapped

mapVars == <<mloaded, counter_table, cu, invoked, completed, mret, dumps,
             entries, overlapped>>

\* The state of chapter09/hello-lsm.py (described with its model below).
VARIABLES lloaded, lcu, luids, ltrace, lrets

lsmVars == <<lloaded, lcu, luids, ltrace, lrets>>

\* What one firing of the chapter04 hello made of a UID (described below).
VARIABLES uidShown

\* int opcode = ctx->args[1];
Opcode(a) == ToInt32(a[1], a[2])

\* The kernel's tail call takes the index as a u32 and fails unless
\* index < max_entries and the slot holds a program: the result is the
\* handler jumped to, or Empty for a failed jump.
\* A bounds check that looks at the low 16 bits of the index only.
InTable_LowBitsOnly(idx) == idx[1] < TableSize

InTable(idx) == idx[2] = 0 /\ idx[1] < TableSize

SlotOf(idx) == idx[1]

\* A jump that takes the index modulo 2^16 instead of checking all 32 bits.
TailCall_Wraps(table, opcode) ==
    LET idx == ToU32(opcode)
    IN  IF idx[1] < TableSize THEN table[idx[1]] ELSE Empty

TailCall(table, opcode) ==
    LET idx == ToU32(opcode)
    IN  IF InTable(idx) THEN table[SlotOf(idx)] ELSE Empty

\* What each jump target writes to the trace pipe (it re-reads ctx itself).
hello_exec(a) == << [fn |-> "hello_exec", text |-> "Executing a program", arg |-> 0] >>

\* A timer handler that tells creation from the rest only.
hello_timer_NoDelete(a) ==
    LET opcode == Opcode(a)
    IN  << [fn |-> "hello_timer",
            text |-> IF opcode = 222 THEN "Creating a timer" ELSE "Some other timer operation",
            arg |-> 0] >>

hello_timer(a) ==
    LET opcode == Opcode(a)
    IN  << [fn |-> "hello_timer",
            text |-> CASE opcode = 222 -> "Creating a timer"
                       [] opcode = 226 -> "Deleting a timer"
                       [] OTHER        -> "Some other timer operation",
            arg |-> 0] >>

ignore_opcode(a) == << >>

Handler(name, a) ==
    CASE name = "hello_exec"    -> hello_exec(a)
      [] name = "hello_timer"   -> hello_timer(a)
      [] name = "ignore_opcode" -> ignore_opcode(a)

\* A dispatcher whose jump returns like a function call: the diagnostic is
\* emitted after a successful jump too.
hello_CallReturns(table, a) ==
    LET opcode == Opcode(a)
        idx    == ToU32(opcode)
        target == TailCall(table, opcode)
        own    == << [fn |-> "hello", text |-> "Another syscall: %d", arg |-> opcode] >>
    IN  [ arg    |-> a,
          opcode |-> opcode,
          called |-> opcode,
          slot   |-> IF InTable(idx) THEN SlotOf(idx) ELSE -1,
          target |-> target,
          own    |-> own,
          ret    |-> 0,
          lines  |-> IF target = Empty THEN own ELSE Handler(target, a) \o own ]

\* The dispatcher: one firing of the raw tracepoint with ctx->args[1] = a.
\* called: the opcode syscall.call was invoked with; slot: the slot the jump
\* read, or -1 when the index was outside the table; target: the handler
\* jumped to, or Empty; own: the lines hello itself emitted after the call;
\* lines: everything the firing wrote to the trace pipe.
hello(table, a) ==
    LET opcode == Opcode(a)
        idx    == ToU32(opcode)
        target == TailCall(table, opcode)
        own    == IF target = Empty
                  THEN << [fn |-> "hello", text |-> "Another syscall: %d", arg |-> opcode] >>
                  ELSE << >>
    IN  [ arg    |-> a,
          opcode |-> opcode,
          called |-> opcode,
          slot   |-> IF InTable(idx) THEN SlotOf(idx) ELSE -1,
          target |-> target,
          own    |-> own,
          ret    |-> 0,
          lines  |-> IF target = Empty THEN own ELSE Handler(target, a) ]

\* The tail calls the kernel allows in one firing before a further jump
\* fails (the limit the comment at the fallthrough names).
MaxTailCalls == 33

\* A handler that dispatches on the opcode once more.
HandlerJump_Redispatch(name, table, a) == TailCall(table, Opcode(a))

\* The jump a handler makes itself, Empty for none: hello_exec, hello_timer
\* and ignore_opcode hold no syscall.call.
HandlerJump(name, table, a) == Empty

\* The programs that run in one firing, in order, from handler name on, n
\* tail calls having been made.
RECURSIVE Follow(_, _, _, _)
Follow(name, table, a, n) ==
    LET t == IF n < MaxTailCalls THEN HandlerJump(name, table, a) ELSE Empty
    IN  IF t = Empty THEN <<name>> ELSE <<name>> \o Follow(t, table, a, n + 1)

\* The programs that run in one firing of the dispatcher, in order.
Chain(table, a) ==
    LET target == hello(table, a).target
    IN  IF target = Empty THEN <<"hello">> ELSE <<"hello">> \o Follow(target, table, a, 1)

\* The table's phase, read off the control program's position.
Phase ==
    CASE fill_i = 0                        -> "Built"
      [] fill_i > 0 /\ fill_i < TableSize  -> "Filling"
      [] fill_i = TableSize /\ ov_k = 1    -> "Defaulted"
      [] ov_k > 1 /\ ov_k <= Len(Overrides) -> "Specializing"
      [] OTHER                             -> "Specialized"

\* last: the most recent firing (what hello returned, the phase it ran in
\* and the programs that ran).
NoFiring == [arg |-> U64(0), opcode |-> 0, called |-> 0, slot |-> -1, target |-> "none",
             own |-> << >>, ret |-> 0, lines |-> << >>, phase |-> "none",
             chain |-> << >>]

TailInit ==
    /\ tpc = "load"
    /\ fill_i = 0
    /\ ov_k = 1
    /\ loaded = {}
    /\ attached = FALSE
    /\ prog_array = [s \in 0 .. TableSize - 1 |-> Empty]
    /\ fired = 0
    /\ last = NoFiring

\* b = BPF(text=program)
LoadProgram ==
    /\ tpc = "load"
    /\ tpc' = "attach"
    /\ UNCHANGED <<fill_i, ov_k, loaded, attached, prog_array, fired, last>>
    /\ UNCHANGED <<cfgVars, mapVars, lsmVars, uidShown>>

\* b = BPF(text=program) raises (compile, verifier or permission error): the
\* script ends with the traceback.
LoadProgramFails ==
    /\ tpc = "load"
    /\ tpc' = "aborted"
    /\ UNCHANGED <<fill_i, ov_k, loaded, attached, prog_array, fired, last>>
    /\ UNCHANGED <<cfgVars, mapVars, lsmVars, uidShown>>

\* b.attach_raw_tracepoint(tp="sys_enter", fn_name="hello")
AttachRawTracepoint ==
    /\ tpc = "attach"
    /\ attached' = TRUE
    /\ tpc' = "load_func"
    /\ UNCHANGED <<fill_i, ov_k, loaded, prog_array, fired, last>>
    /\ UNCHANGED <<cfgVars, mapVars, lsmVars, uidShown>>

\* b.attach_raw_tracepoint raises: the script ends, nothing was attached.
AttachFails ==
    /\ tpc = "attach"
    /\ tpc' = "aborted"
    /\ UNCHANGED <<fill_i, ov_k, loaded, attached, prog_array, fired, last>>
    /\ UNCHANGED <<cfgVars, mapVars, lsmVars, uidShown>>

\* One of the three b.load_func calls raises: the script ends.  attached
\* keeps telling that this run had attached the dispatcher; the hook itself
\* goes with the process (HookLive).
LoadFuncFails ==
    /\ tpc = "load_func"
    /\ tpc' = "aborted"
    /\ UNCHANGED <<fill_i, ov_k, loaded, attached, prog_array, fired, last>>
    /\ UNCHANGED <<cfgVars, mapVars, lsmVars, uidShown>>

\* ignore_fn, exec_fn, timer_fn = b.load_func(...), in this order
LoadFunc ==
    /\ tpc = "load_func"
    /\ LET next == CASE loaded = {}                              -> "ignore_opcode"
                     [] loaded = {"ignore_opcode"}               -> "hello_exec"
                     [] OTHER                                    -> "hello_timer"
       IN  /\ loaded' = loaded \cup {next}
           /\ tpc' = IF next = "hello_timer" THEN "get_table" ELSE "load_func"
    /\ UNCHANGED <<fill_i, ov_k, attached, prog_array, fired, last>>
    /\ UNCHANGED <<cfgVars, mapVars, lsmVars, uidShown>>

\* prog_array = b.get_table("syscall")
GetTable ==
    /\ tpc = "get_table"
    /\ tpc' = "fill"
    /\ UNCHANGED <<fill_i, ov_k, loaded, attached, prog_array, fired, last>>
    /\ UNCHANGED <<cfgVars, mapVars, lsmVars, uidShown>>

\* for i in range(len(prog_array)): prog_array[i] = ignore_fn.fd
\* One step is one iteration (one map update); the last one leaves the loop.
\* A fill loop that puts a handler, not the default, into slot 0.
FillSlot_HandlerFirst(table, i) ==
    [table EXCEPT ![i] = IF i = 0 THEN "hello_exec" ELSE "ignore_opcode"]

\* A fill loop that starts at slot 1.
FillSlot_SkipsZero(table, i) == IF i = 0 THEN table ELSE [table EXCEPT ![i] = "ignore_opcode"]

FillSlot(table, i) == [table EXCEPT ![i] = "ignore_opcode"]

FillStep ==
    /\ tpc = "fill"
    /\ fill_i < TableSize
    /\ prog_array' = FillSlot(prog_array, fill_i)
    /\ fill_i' = fill_i + 1
    /\ tpc' = IF fill_i + 1 = TableSize THEN "override" ELSE "fill"
    /\ UNCHANGED <<ov_k, loaded, attached, fired, last>>
    /\ UNCHANGED <<cfgVars, mapVars, lsmVars, uidShown>>

\* prog_array[59] = exec_fn.fd; prog_array[222..226] = timer_fn.fd
\* An override written one slot too high.
Install_OffByOne(table, op, fn) == [table EXCEPT ![op + 1] = fn]

Install(table, op, fn) == [table EXCEPT ![op] = fn]

OverrideStep ==
    /\ tpc = "override"
    /\ prog_array' = Install(prog_array, Overrides[ov_k].op, Overrides[ov_k].fn)
    /\ ov_k' = ov_k + 1
    /\ tpc' = IF ov_k = Len(Overrides) THEN "trace_print" ELSE "override"
    /\ UNCHANGED <<fill_i, loaded, attached, fired, last>>
    /\ UNCHANGED <<cfgVars, mapVars, lsmVars, uidShown>>

\* The hook is live once the dispatcher is attached, for as long as the
\* control program runs.
HookLive == attached /\ tpc # "aborted"

\* sys_enter fires: the dispatcher runs against the table as it is now.
SysEnter ==
    /\ HookLive
    /\ fired < MaxFirings
    /\ \E a \in Args1 :
         LET r == hello(prog_array, a)
         IN  last' = [arg |-> r.arg, opcode |-> r.opcode, called |-> r.called,
                      slot |-> r.slot, target |-> r.target, own |-> r.own,
                      ret |-> r.ret, lines |-> r.lines, phase |-> Phase,
                      chain |-> Chain(prog_array, a)]
    /\ fired' = fired + 1
    /\ UNCHANGED <<tpc, fill_i, ov_k, loaded, attached, prog_array>>
    /\ UNCHANGED <<cfgVars, mapVars, lsmVars, uidShown>>

TailNext ==
    \/ LoadProgram
    \/ LoadProgramFails
    \/ AttachRawTracepoint
    \/ AttachFails
    \/ LoadFunc
    \/ LoadFuncFails
    \/ GetTable
    \/ FillStep
    \/ OverrideStep
    \/ SysEnter

(***************************************************************************)
(* chapter04/hello-buffer-config.py ("perf") and                           *)
(* chapter04/hello-ring-buffer-config.py ("ring"), and the program they    *)
(* extend, chapter02/hello-buffer.py ("buffer": a perf buffer, no config). *)
(* Byte arrays are sequences of byte values (ASCII codes, 0 the NUL).      *)
(***************************************************************************)

\* char message[12] of struct data_t; char command[16] of struct data_t.
MsgCap == 12

CommCap == 16

\* char message[13] / char message[12] of struct user_msg_t.
ValueCap(p) == IF p = "perf" THEN 13 ELSE 12

\* Records one per-CPU perf buffer holds before submissions are lost.
PerfCap == 2

\* Records the ring holds before submissions are dropped.
RingCap == 2

\* The most firings of the execve probe in one run of the model.
MaxEvents == 3

CPUs == {0, 1}

\* "Hello World", "Hey root!", "Hi user 501!"
HelloWorld == <<72, 101, 108, 108, 111, 32, 87, 111, 114, 108, 100>>

HeyRoot == <<72, 101, 121, 32, 114, 111, 111, 116, 33>>

HiUser501 == <<72, 105, 32, 117, 115, 101, 114, 32, 53, 48, 49, 33>>

\* A byte array of n NULs; b padded with NULs to n bytes.
Zeros(n) == [i \in 1 .. n |-> 0]

Pad(b, n) == b \o Zeros(n - Len(b))

\* ct.create_string_buffer(text): the text and a terminating NUL.
create_string_buffer(text) == text \o <<0>>

\* char message[12] = "Hello World";
DefaultMessage == Pad(HelloWorld, MsgCap)

\* Bytes that may lie behind a user-space buffer the kernel reads beyond:
\* the rest of a zeroed allocation, or foreign bytes.
JunkBytes == {0, 88}

Junk(n) == { [i \in 1 .. n |-> x] : x \in JunkBytes }

\* b["config"][key] = leaf: bpf_update_elem copies value_size bytes from the
\* leaf's address, whatever the leaf's own length; tail is what lies behind it.
MapValue(leaf, cap, tail) == SubSeq(leaf \o tail, 1, cap)

TailLen(leaf, cap) == IF Len(leaf) < cap THEN cap - Len(leaf) ELSE 0

\* The triggering contexts: bpf_get_current_pid_tgid(), _uid_gid() (u32
\* halves as limbs), the task's comm and the CPU the probe runs on.  Root
\* and a user without a config entry, each on any CPU; user 501, bound to
\* CPU 0; and a task, bound to CPU 1, whose 15-byte comm ends in the middle
\* of a two-byte character.
Tasks == { [tgid |-> 1, tid |-> 1, uid |-> <<0, 0>>,   gid |-> <<0, 0>>,   cpus |-> {0, 1},
            comm |-> <<108, 115>>],
           [tgid |-> 2, tid |-> 5, uid |-> <<42, 0>>,  gid |-> <<42, 0>>,  cpus |-> {0, 1},
            comm |-> <<108, 115>>],
           [tgid |-> 3, tid |-> 3, uid |-> <<501, 0>>, gid |-> <<20, 0>>,  cpus |-> {0},
            comm |-> <<98, 97, 115, 104>>],
           [tgid |-> 4, tid |-> 4, uid |-> <<42, 0>>,  gid |-> <<42, 0>>,  cpus |-> {1},
            comm |-> <<99, 97, 102, 101, 99, 97, 102, 101, 99, 97, 102, 101, 99, 97, 195>>] }

Ctxs == { [tgid |-> p[1].tgid, tid |-> p[1].tid, uid |-> p[1].uid, gid |-> p[1].gid,
           comm |-> p[1].comm, cpu |-> p[2]] :
             p \in { q \in Tasks \X CPUs : q[2] \in q[1].cpus } }

\* A control program that seeds the config only after opening the channel.
Script_SeedsLast(p) ==
    IF p = "perf"
    THEN <<"load", "attach", "open", "seed0", "seed501", "poll">>
    ELSE IF p = "ring"
    THEN <<"load", "attach", "open", "seed0", "poll">>
    ELSE <<"load", "attach", "open", "poll">>

\* A control program that enters the poll loop without opening the channel.
Script_PollsUnopened(p) ==
    IF p = "perf"
    THEN <<"load", "attach", "seed0", "seed501", "poll", "open">>
    ELSE IF p = "ring"
    THEN <<"load", "seed0", "attach", "poll", "open">>
    ELSE <<"load", "attach", "poll", "open">>

\* The order of the control program's statements.
Script(p) ==
    IF p = "perf"
    THEN <<"load", "attach", "seed0", "seed501", "open", "poll">>
    ELSE IF p = "ring"
    THEN <<"load", "seed0", "attach", "open", "poll">>
    ELSE <<"load", "attach", "open", "poll">>

\* A copy that keeps the last byte of the destination for a terminator.
bpf_probe_read_kernel_Terminates(size, src) == SubSeq(src, 1, size - 1) \o <<0>>

\* bpf_probe_read_kernel(dst, size, src): exactly size bytes from src.
bpf_probe_read_kernel(size, src) == SubSeq(src, 1, size)

\* A name copy that writes the name and one terminator and leaves the rest
\* of the destination as it was (88 stands for a stale byte).
bpf_get_current_comm_NoPad(size, comm) ==
    LET n == IF Len(comm) < size THEN Len(comm) ELSE size - 1
    IN  SubSeq(comm, 1, n) \o <<0>> \o [i \in 1 .. size - n - 1 |-> 88]

\* bpf_get_current_comm(&data.command, sizeof(data.command)): NUL-padded,
\* at most size - 1 bytes of the name.
bpf_get_current_comm(size, comm) ==
    Pad(SubSeq(comm, 1, IF Len(comm) < size THEN Len(comm) ELSE size - 1), size)

\* A lookup keyed by the process id.
LookupKey_ByPid(data) == ToU32(data.pid)

\* config.lookup(&data.uid): the key is the 4 bytes of data.uid, read as u32.
LookupKey(data) == ToU32(data.uid)

\* The producer: int hello(void *ctx), up to the submit.  found and value
\* are what config.lookup returned.
hello_cfg(cfg, ctx) ==
    LET data0 == [pid |-> 0, uid |-> 0, command |-> Zeros(CommCap), message |-> Zeros(MsgCap)]
        data1 == [data0 EXCEPT !.pid = ctx.tgid,
                               !.uid = ToInt32(ctx.uid[1], ctx.uid[2]),
                               !.command = bpf_get_current_comm(CommCap, ctx.comm)]
        key   == LookupKey(data1)
        found == key \in DOMAIN cfg
        msg   == IF found THEN bpf_probe_read_kernel(MsgCap, cfg[key])
                          ELSE bpf_probe_read_kernel(MsgCap, DefaultMessage)
    IN  [ data  |-> [data1 EXCEPT !.message = msg],
          found |-> found,
          value |-> IF found THEN cfg[key] ELSE << >>,
          ret   |-> 0 ]

\* The producer of hello-buffer.py: int hello(void *ctx), up to the submit.
\* There is no config store; the message is always the local array.
hello_buffer(ctx) ==
    LET data0 == [pid |-> 0, uid |-> 0, command |-> Zeros(CommCap), message |-> Zeros(MsgCap)]
        data1 == [data0 EXCEPT !.pid = ctx.tgid,
                               !.uid = ToInt32(ctx.uid[1], ctx.uid[2]),
                               !.command = bpf_get_current_comm(CommCap, ctx.comm)]
    IN  [ data  |-> [data1 EXCEPT !.message = bpf_probe_read_kernel(MsgCap, DefaultMessage)],
          found |-> FALSE,
          value |-> << >>,
          ret   |-> 0 ]

\* The hello of the program that runs.
HelloOf(p, cfg, ctx) == IF p = "buffer" THEN hello_buffer(ctx) ELSE hello_cfg(cfg, ctx)

\* The getter of a ctypes c_char array field: the bytes before the first NUL,
\* all of the field when it holds none.
StrLen(b) ==
    IF \E i \in 1 .. Len(b) : b[i] = 0
    THEN (CHOOSE i \in 1 .. Len(b) : b[i] = 0 /\ \A j \in 1 .. i - 1 : b[j] # 0) - 1
    ELSE Len(b)

CharArray(b) == SubSeq(b, 1, StrLen(b))

\* bytes.decode(): strict UTF-8.  The length of the character a lead byte
\* announces (0: not a lead byte) and the range of its second byte.
Utf8Len(c) ==
    IF c < 128 THEN 1
    ELSE IF c \in 194 .. 223 THEN 2
    ELSE IF c \in 224 .. 239 THEN 3
    ELSE IF c \in 240 .. 244 THEN 4
    ELSE 0

Utf8Second(c) ==
    IF c = 224 THEN 160 .. 191
    ELSE IF c = 237 THEN 128 .. 159
    ELSE IF c = 240 THEN 144 .. 191
    ELSE IF c = 244 THEN 128 .. 143
    ELSE 128 .. 191

\* TRUE when b.decode() returns a string, FALSE when it raises
\* UnicodeDecodeError.
RECURSIVE Decodes(_)
Decodes(b) ==
    IF b = << >> THEN TRUE
    ELSE LET n == Utf8Len(b[1])
         IN  /\ n > 0
             /\ Len(b) >= n
             /\ n >= 2 => b[2] \in Utf8Second(b[1])
             /\ \A j \in 3 .. n : b[j] \in 128 .. 191
             /\ \E rest \in {SubSeq(b, n + 1, Len(b))} : Decodes(rest)

\* print_event(cpu, data, size): the fields read from the record and the
\* line printed from them; raised when a decode() raised instead, in which
\* case no line is printed.  A string is kept as its UTF-8 bytes.
print_event(cpu, rec) ==
    [cpu |-> cpu, pid |-> rec.pid, uid |-> rec.uid,
     command |-> CharArray(rec.command), message |-> CharArray(rec.message),
     raised |-> \E c \in {CharArray(rec.command)}, m \in {CharArray(rec.message)} :
                   ~Decodes(c) \/ ~Decodes(m)]

NoEvent == [uid |-> 0, found |-> FALSE, value |-> << >>, message |-> << >>,
            accepted |-> FALSE, fired |-> FALSE, ret |-> 0]

NoCpu == -1

\* No hello is running on the CPU.
Idle == [busy |-> FALSE, data |-> [pid |-> 0, uid |-> 0, command |-> << >>, message |-> << >>],
         found |-> FALSE, key |-> <<0, 0>>]

CfgInit ==
    /\ prog \in {"buffer", "perf", "ring"}
    /\ cpc = 1
    /\ config = << >>
    /\ kattached = FALSE
    /\ opened = FALSE
    /\ perf = [c \in CPUs |-> << >>]
    /\ ring = << >>
    /\ delivered = << >>
    /\ nev = 0
    /\ lastEv = NoEvent
    /\ polling = FALSE
    /\ npoll = 0
    /\ accepted = << >>
    /\ inflight = [c \in CPUs |-> Idle]

At(step) == cpc <= Len(Script(prog)) /\ Script(prog)[cpc] = step

\* b = BPF(text=program)
CfgLoad ==
    /\ At("load")
    /\ cpc' = cpc + 1
    /\ UNCHANGED <<prog, config, kattached, opened, perf, ring, delivered, nev, lastEv>>
    /\ UNCHANGED <<polling, npoll, accepted, inflight>>
    /\ UNCHANGED <<tailVars, mapVars, lsmVars, uidShown>>

\* The control program has ended with an exception.
CfgAborted == cpc > Len(Script(prog))

\* b = BPF(text=program) raises: the script ends with the traceback.
CfgLoadFails ==
    /\ At("load")
    /\ cpc' = Len(Script(prog)) + 1
    /\ UNCHANGED <<prog, config, kattached, opened, perf, ring, delivered, nev, lastEv>>
    /\ UNCHANGED <<polling, npoll, accepted, inflight>>
    /\ UNCHANGED <<tailVars, mapVars, lsmVars, uidShown>>

\* b.attach_kprobe raises: the script ends, no probe was attached.
CfgAttachFails ==
    /\ At("attach")
    /\ cpc' = Len(Script(prog)) + 1
    /\ UNCHANGED <<prog, config, kattached, opened, perf, ring, delivered, nev, lastEv>>
    /\ UNCHANGED <<polling, npoll, accepted, inflight>>
    /\ UNCHANGED <<tailVars, mapVars, lsmVars, uidShown>>

\* b.attach_kprobe(event=syscall, fn_name="hello")
CfgAttach ==
    /\ At("attach")
    /\ kattached' = TRUE
    /\ cpc' = cpc + 1
    /\ UNCHANGED <<prog, config, opened, perf, ring, delivered, nev, lastEv>>
    /\ UNCHANGED <<polling, npoll, accepted, inflight>>
    /\ UNCHANGED <<tailVars, mapVars, lsmVars, uidShown>>

\* A write that makes the entry visible with only the first half of the value
\* copied in.
Upsert_TornValue(cfg, key, value) ==
    [k \in DOMAIN cfg \cup {key} |->
        IF k = key THEN [i \in 1 .. Len(value) |-> IF 2 * i <= Len(value) THEN value[i] ELSE 0]
        ELSE cfg[k]]

\* The map with key -> value written (insert or overwrite).
Upsert(cfg, key, value) ==
    [k \in DOMAIN cfg \cup {key} |-> IF k = key THEN value ELSE cfg[k]]

\* b["config"][ct.c_int(0)] = ct.create_string_buffer(b"Hey root!")
CfgSeed0 ==
    /\ At("seed0")
    /\ LET leaf == create_string_buffer(HeyRoot)
       IN  \E tail \in Junk(TailLen(leaf, ValueCap(prog))) :
              config' = Upsert(config, ToU32(0), MapValue(leaf, ValueCap(prog), tail))
    /\ cpc' = cpc + 1
    /\ UNCHANGED <<prog, kattached, opened, perf, ring, delivered, nev, lastEv>>
    /\ UNCHANGED <<polling, npoll, accepted, inflight>>
    /\ UNCHANGED <<tailVars, mapVars, lsmVars, uidShown>>

\* b["config"][ct.c_int(501)] = ct.create_string_buffer(b"Hi user 501!")
CfgSeed501 ==
    /\ At("seed501")
    /\ LET leaf == create_string_buffer(HiUser501)
       IN  \E tail \in Junk(TailLen(leaf, ValueCap(prog))) :
              config' = Upsert(config, ToU32(501), MapValue(leaf, ValueCap(prog), tail))
    /\ cpc' = cpc + 1
    /\ UNCHANGED <<prog, kattached, opened, perf, ring, delivered, nev, lastEv>>
    /\ UNCHANGED <<polling, npoll, accepted, inflight>>
    /\ UNCHANGED <<tailVars, mapVars, lsmVars, uidShown>>

\* b["output"].open_perf_buffer(print_event) / open_ring_buffer(print_event)
CfgOpen ==
    /\ At("open")
    /\ opened' = TRUE
    /\ cpc' = cpc + 1
    /\ UNCHANGED <<prog, config, kattached, perf, ring, delivered, nev, lastEv>>
    /\ UNCHANGED <<polling, npoll, accepted, inflight>>
    /\ UNCHANGED <<tailVars, mapVars, lsmVars, uidShown>>

\* while True: the control program enters the loop and calls the poll, which
\* blocks until there are records.
CfgEnterLoop ==
    /\ At("poll")
    /\ ~polling
    /\ polling' = TRUE
    /\ UNCHANGED <<prog, cpc, config, kattached, opened, perf, ring, delivered, nev, lastEv>>
    /\ UNCHANGED <<npoll, accepted, inflight>>
    /\ UNCHANGED <<tailVars, mapVars, lsmVars, uidShown>>

\* The programs whose channel is the per-CPU perf buffer.
UsesPerf(p) == p # "ring"

\* output.perf_submit(ctx, &data, sizeof(data)): the record goes to the
\* buffer of the CPU the probe runs on; it is lost when no buffer has been
\* opened for that CPU yet or when that buffer is full.
PerfAccepts(isOpen, buf) == isOpen /\ Len(buf) < PerfCap

\* A ring that takes a record whatever it already holds.
RingAccepts_Always(buf) == TRUE

\* output.ringbuf_output(&data, sizeof(data), 0): the record goes to the one
\* ring, which exists from program load; it is dropped when the ring is full.
RingAccepts(buf) == Len(buf) < RingCap

\* A buffer that writes every record it accepts twice.
Enqueue_Twice(buf, rec) == buf \o <<rec, rec>>

\* A buffer that hands out its newest record first.
Enqueue_AtHead(buf, rec) == <<rec>> \o buf

\* A record accepted by a buffer is written behind the ones it holds.
Enqueue(buf, rec) == Append(buf, rec)

\* The publish at the end of hello on CPU c, for the record data built with
\* the lookup result found/value.
Publish(c, data, found, value, ret) ==
    LET acc == IF UsesPerf(prog) THEN PerfAccepts(opened, perf[c])
                                 ELSE RingAccepts(ring)
    IN  /\ perf' = IF UsesPerf(prog) /\ acc
                   THEN [perf EXCEPT ![c] = Enqueue(@, data)] ELSE perf
        /\ ring' = IF ~UsesPerf(prog) /\ acc THEN Enqueue(ring, data) ELSE ring
        /\ accepted' = IF acc THEN Append(accepted, [cpu |-> c, rec |-> data])
                              ELSE accepted
        /\ lastEv' = [uid |-> data.uid, found |-> found, value |-> value,
                      message |-> data.message, accepted |-> acc, fired |-> TRUE,
                      ret |-> ret]

\* The first part of hello on the CPU of ctx, up to and with config.lookup:
\* the record without its message, and what the lookup returned (a pointer
\* to the stored value of key, or NULL).
hello_lookup(cfg, ctx) ==
    LET data0 == [pid |-> 0, uid |-> 0, command |-> Zeros(CommCap), message |-> Zeros(MsgCap)]
        data1 == [data0 EXCEPT !.pid = ctx.tgid,
                               !.uid = ToInt32(ctx.uid[1], ctx.uid[2]),
                               !.command = bpf_get_current_comm(CommCap, ctx.comm)]
        key   == LookupKey(data1)
    IN  [busy |-> TRUE, data |-> data1, found |-> key \in DOMAIN cfg, key |-> key]

\* The second part of hello: the copy through the pointer (or of the default
\* message), giving the record to submit.
hello_copy(cfg, st) ==
    [st.data EXCEPT !.message = IF st.found
                                THEN bpf_probe_read_kernel(MsgCap, cfg[st.key])
                                ELSE bpf_probe_read_kernel(MsgCap, DefaultMessage)]

\* A lookup that inserts the default message for a key it does not find.
config_lookup_OrInit(cfg, key) ==
    IF key \in DOMAIN cfg THEN cfg
    ELSE [k \in DOMAIN cfg \cup {key} |->
            IF k = key THEN Pad(DefaultMessage, MsgCap) ELSE cfg[k]]

\* The store after p = config.lookup(&data.uid): a lookup returns a pointer
\* or NULL and writes nothing.
config_lookup(cfg, key) == cfg

\* The execve kprobe fires on some CPU: hello runs to its end.  The one
\* access of hello to the store is config.lookup (hello-buffer.py has no
\* store).
CfgHello ==
    /\ kattached
    /\ nev < MaxEvents
    /\ \E ctx \in Ctxs :
         LET r == HelloOf(prog, config, ctx)
         IN  /\ Publish(ctx.cpu, r.data, r.found, r.value, r.ret)
             /\ config' = IF prog = "buffer" THEN config
                           ELSE config_lookup(config, hello_lookup(config, ctx).key)
    /\ nev' = nev + 1
    /\ UNCHANGED <<prog, cpc, kattached, opened, delivered>>
    /\ UNCHANGED <<polling, npoll, inflight>>
    /\ UNCHANGED <<tailVars, mapVars, lsmVars, uidShown>>

\* The execve kprobe fires on a CPU on which hello is not running: hello
\* runs up to and with its lookup.
CfgHelloLookup ==
    /\ kattached
    /\ nev < MaxEvents
    /\ \E ctx \in Ctxs :
         /\ ~inflight[ctx.cpu].busy
         /\ inflight' = [inflight EXCEPT ![ctx.cpu] = hello_lookup(config, ctx)]
    /\ nev' = nev + 1
    /\ UNCHANGED <<prog, cpc, config, kattached, opened, perf, ring, delivered, lastEv>>
    /\ UNCHANGED <<polling, npoll, accepted>>
    /\ UNCHANGED <<tailVars, mapVars, lsmVars, uidShown>>

\* A hello that has done its lookup copies the message and submits.
CfgHelloSubmit ==
    /\ \E c \in CPUs :
         /\ inflight[c].busy
         /\ LET st == inflight[c]
            IN  Publish(c, hello_copy(config, st), st.found,
                        IF st.found THEN config[st.key] ELSE << >>, 0)
         /\ inflight' = [inflight EXCEPT ![c] = Idle]
    /\ UNCHANGED <<prog, cpc, config, kattached, opened, delivered, nev>>
    /\ UNCHANGED <<polling, npoll>>
    /\ UNCHANGED <<tailVars, mapVars, lsmVars, uidShown>>

\* A poll that reads the buffer of the lowest CPU alone.
Drain_FirstCpu(bufs, cpus) ==
    IF cpus = {} THEN << >>
    ELSE LET c == CHOOSE x \in cpus : \A y \in cpus : x <= y
         IN  [i \in 1 .. Len(bufs[c]) |-> [cpu |-> c, rec |-> bufs[c][i]]]

\* A poll that reads each buffer from its newest record back to its oldest.
RECURSIVE Drain_NewestFirst(_, _)
Drain_NewestFirst(bufs, cpus) ==
    IF cpus = {} THEN << >>
    ELSE LET c == CHOOSE x \in cpus : \A y \in cpus : x <= y
             n == Len(bufs[c])
         IN  [i \in 1 .. n |-> [cpu |-> c, rec |-> bufs[c][n + 1 - i]]]
                \o Drain_NewestFirst(bufs, cpus \ {c})

\* The records one poll hands to the callback, each with the CPU of its
\* buffer: every per-CPU buffer in CPU order, each from its head.
RECURSIVE Drain(_, _)
Drain(bufs, cpus) ==
    IF cpus = {} THEN << >>
    ELSE LET c == CHOOSE x \in cpus : \A y \in cpus : x <= y
         IN  [i \in 1 .. Len(bufs[c]) |-> [cpu |-> c, rec |-> bufs[c][i]]]
                \o Drain(bufs, cpus \ {c})

\* A ring read from its newest record back to its oldest.
DrainRing_NewestFirst(buf) ==
    [i \in 1 .. Len(buf) |-> [cpu |-> NoCpu, rec |-> buf[Len(buf) + 1 - i]]]

\* The ring from its head; the callback of a ring gets no CPU.
DrainRing(buf) == [i \in 1 .. Len(buf) |-> [cpu |-> NoCpu, rec |-> buf[i]]]

\* b.perf_buffer_poll() / b.ring_buffer_poll() returns: one step is one call
\* that found records; the callback runs for each, in the order read.
CfgPoll ==
    /\ At("poll")
    /\ polling
    /\ npoll' = npoll + 1
    /\ perf' = [c \in CPUs |-> << >>]
    /\ ring' = << >>
    /\ \E recs \in {IF UsesPerf(prog) THEN Drain(perf, CPUs) ELSE DrainRing(ring)} :
           /\ recs # << >>
           /\ delivered' = delivered \o
                 [i \in 1 .. Len(recs) |-> print_event(recs[i].cpu, recs[i].rec)]
    /\ UNCHANGED <<prog, cpc, config, kattached, opened, nev, lastEv>>
    /\ UNCHANGED <<polling, accepted, inflight>>
    /\ UNCHANGED <<tailVars, mapVars, lsmVars, uidShown>>

CfgNext ==
    \/ CfgLoad
    \/ CfgLoadFails
    \/ CfgAttach
    \/ CfgAttachFails
    \/ CfgSeed0
    \/ CfgSeed501
    \/ CfgOpen
    \/ CfgEnterLoop
    \/ CfgHello
    \/ CfgPoll

(***************************************************************************)
(* chapter02/hello-map.py: a hash map UID -> number of execve/execveat     *)
(* calls, counted by count_up on two tracepoints, dumped every 2 seconds.  *)
(* count_up is modelled in the steps at which CPUs can interleave: the     *)
(* lookup_or_init, the load of *p and the store of the incremented value.  *)
(* The counter is a u64; the bounds keep it far from 2^64, so it is a      *)
(* plain integer here.                                                     *)
(***************************************************************************)

\* The most invocations of count_up in one run.
MaxCalls == 3

\* bpf_get_current_uid_gid() of the calling tasks: gid << 32 | uid.
UidGids == { <<0, 0, 0, 0>>, <<1000, 0, 1000, 0>> }

\* u32 uid = (u32)(bpf_get_current_uid_gid() & 0xFFFFFFFF);
UidOf(ug) == <<ug[1], ug[2]>>

Uids == { UidOf(ug) : ug \in UidGids }

Tracepoints == {"sys_enter_execve", "sys_enter_execveat"}

\* A program that probes execve alone.
Probed_ExecveOnly(tp) == tp = "sys_enter_execve"

\* TRACEPOINT_PROBE(syscalls, sys_enter_execve) and
\* TRACEPOINT_PROBE(syscalls, sys_enter_execveat), both calling count_up.
Probed(tp) == tp \in {"sys_enter_execve", "sys_enter_execveat"}

\* The entries into the two system calls made so far under one UID.
Entered(uid) == entries["sys_enter_execve"][uid] + entries["sys_enter_execveat"][uid]

\* count_up is not running on the CPU.
NotCounting == [pc |-> "idle", uid |-> <<0, 0>>, val |-> 0]

\* A call that stores init whether or not the key has an entry.
lookup_or_init_Resets(table, uid, init) ==
    [k \in DOMAIN table \cup {uid} |-> IF k = uid THEN init ELSE table[k]]

\* An insert that stores the count of the inserting call with the entry.
lookup_or_init_CountsInsert(table, uid, init) ==
    IF uid \in DOMAIN table THEN table
    ELSE [k \in DOMAIN table \cup {uid} |-> IF k = uid THEN init + 1 ELSE table[k]]

\* counter_table.lookup_or_init(&uid, &zero): the table after the call, in
\* which uid has an entry (a new one holds init); p points to that entry.
lookup_or_init(table, uid, init) ==
    IF uid \in DOMAIN table THEN table
    ELSE [k \in DOMAIN table \cup {uid} |-> IF k = uid THEN init ELSE table[k]]

MapInit ==
    /\ mloaded = FALSE
    /\ counter_table = << >>
    /\ cu = [c \in CPUs |-> NotCounting]
    /\ invoked = [u \in Uids |-> 0]
    /\ completed = [u \in Uids |-> 0]
    /\ mret = 0
    /\ dumps = << >>
    /\ entries = [tp \in Tracepoints |-> [u \in Uids |-> 0]]
    /\ overlapped = [u \in Uids |-> FALSE]

\* b = BPF(text=program): the load attaches both TRACEPOINT_PROBEs.
MapLoad ==
    /\ ~mloaded
    /\ mloaded' = TRUE
    /\ UNCHANGED <<counter_table, cu, invoked, completed, mret, dumps>>
    /\ UNCHANGED <<entries, overlapped>>
    /\ UNCHANGED <<tailVars, cfgVars, lsmVars, uidShown>>

\* A task enters execve or execveat on an idle CPU; on a probed tracepoint
\* count_up runs up to and with lookup_or_init (u64 zero = 0).  entries
\* counts the system call entries per tracepoint and UID; overlapped[uid]
\* records that count_up was entered for uid while another CPU was inside
\* count_up for the same uid.
MapLookupOrInit ==
    /\ mloaded
    /\ \E c \in CPUs, ug \in UidGids, tp \in Tracepoints :
         LET uid == UidOf(ug)
         IN  /\ cu[c].pc = "idle"
             /\ Entered(uid) + Entered(CHOOSE u \in Uids : u # uid) < MaxCalls
             /\ entries' = [entries EXCEPT ![tp][uid] = @ + 1]
             /\ IF Probed(tp)
                   THEN /\ counter_table' = lookup_or_init(counter_table, uid, 0)
                        /\ cu' = [cu EXCEPT ![c] = [pc |-> "looked", uid |-> uid, val |-> 0]]
                        /\ invoked' = [invoked EXCEPT ![uid] = @ + 1]
                        /\ overlapped' = [overlapped EXCEPT ![uid] =
                                             @ \/ \E d \in CPUs \ {c} :
                                                     cu[d].pc # "idle" /\ cu[d].uid = uid]
                   ELSE UNCHANGED <<counter_table, cu, invoked, overlapped>>
    /\ UNCHANGED <<mloaded, completed, mret, dumps>>
    /\ UNCHANGED <<tailVars, cfgVars, lsmVars, uidShown>>

\* (*p)++, first half: the value is loaded into a register.
MapRead ==
    /\ \E c \in CPUs :
         /\ cu[c].pc = "looked"
         /\ cu' = [cu EXCEPT ![c] = [@ EXCEPT !.pc = "read", !.val = counter_table[cu[c].uid]]]
    /\ UNCHANGED <<mloaded, counter_table, invoked, completed, mret, dumps>>
    /\ UNCHANGED <<entries, overlapped>>
    /\ UNCHANGED <<tailVars, cfgVars, lsmVars, uidShown>>

\* (*p)++, second half: the register plus one is stored; return 0.
MapWrite ==
    /\ \E c \in CPUs :
         /\ cu[c].pc = "read"
         /\ counter_table' = [counter_table EXCEPT ![cu[c].uid] = cu[c].val + 1]
         /\ completed' = [completed EXCEPT ![cu[c].uid] = @ + 1]
         /\ cu' = [cu EXCEPT ![c] = NotCounting]
    /\ mret' = 0
    /\ UNCHANGED <<mloaded, invoked, dumps, entries, overlapped>>
    /\ UNCHANGED <<tailVars, cfgVars, lsmVars, uidShown>>

\* The user loop: sleep(2), then the entries of counter_table are printed.
\* The loop has no end; dumps keeps the latest dump and the one before it.
MapDump ==
    /\ mloaded
    /\ dumps' = IF Len(dumps) < 2 THEN Append(dumps, counter_table)
                                  ELSE <<dumps[2], counter_table>>
    /\ UNCHANGED <<mloaded, counter_table, cu, invoked, completed, mret>>
    /\ UNCHANGED <<entries, overlapped>>
    /\ UNCHANGED <<tailVars, cfgVars, lsmVars, uidShown>>

MapNext ==
    \/ MapLoad
    \/ MapLookupOrInit
    \/ MapRead
    \/ MapWrite
    \/ MapDump

(***************************************************************************)
(* chapter09/hello-lsm.py: a probe on security_file_permission that logs   *)
(* the file, the mask and the command for the tasks of UID 1001.  A firing *)
(* is modelled in the steps at which CPUs can interleave: the entry up to  *)
(* the UID test, the first bpf_trace_printk, and the second with the       *)
(* return.                                                                 *)
(***************************************************************************)

\* The most firings of the probe in one run.
MaxChecks == 2

\* char command[256];
LsmCommCap == 256

\* The calls of security_file_permission(f, mask): the calling task's
\* bpf_get_current_uid_gid() (gid << 32 | uid) and comm, the file's
\* d_iname, and the mask (4: MAY_READ, 2: MAY_WRITE).
LsmCalls ==
    { [uid_gid |-> <<1001, 0, 0, 0>>,    comm |-> <<99, 97, 116>>,     file |-> "passwd", mask |-> 4],
      [uid_gid |-> <<1001, 0, 0, 0>>,    comm |-> <<99, 97, 116>>,     file |-> "a.txt",  mask |-> 2],
      [uid_gid |-> <<1001, 0, 1001, 0>>, comm |-> <<98, 97, 115, 104>>, file |-> "passwd", mask |-> 4],
      [uid_gid |-> <<0, 0, 1001, 0>>,    comm |-> <<99, 97, 116>>,     file |-> "passwd", mask |-> 4],
      [uid_gid |-> <<1000, 0, 1001, 0>>, comm |-> <<99, 97, 116>>,     file |-> "a.txt",  mask |-> 2],
      [uid_gid |-> <<1001, 1, 0, 0>>,    comm |-> <<99, 97, 116>>,     file |-> "passwd", mask |-> 4] }

\* A test that looks at the low 16 bits of the UID only.
IsUid1001_LowBitsOnly(uid) == uid[1] = 1001

\* The negation of `uid != 1001` for the __u32 uid.
IsUid1001(uid) == uid = <<1001, 0>>

\* The probe is not running on the CPU.
NotChecking == [pc |-> "idle", id |-> 0, file |-> "", mask |-> 0, command |-> << >>]

LsmInit ==
    /\ lloaded = FALSE
    /\ lcu = [c \in CPUs |-> NotChecking]
    /\ luids = << >>
    /\ ltrace = << >>
    /\ lrets = << >>

\* b = BPF(text=program): the load attaches the KFUNC_PROBE.
LsmLoad ==
    /\ ~lloaded
    /\ lloaded' = TRUE
    /\ UNCHANGED <<lcu, luids, ltrace, lrets>>
    /\ UNCHANGED <<tailVars, cfgVars, mapVars, uidShown>>

\* security_file_permission is called on an idle CPU: the probe reads the
\* command and the UID and returns 0 at once unless the UID is 1001.
\* luids keeps the UID of every firing, by the number of the firing.
LsmEnter ==
    /\ lloaded
    /\ Len(luids) < MaxChecks
    /\ \E c \in CPUs, call \in LsmCalls :
         LET command == bpf_get_current_comm(LsmCommCap, call.comm)
             uid     == <<call.uid_gid[1], call.uid_gid[2]>>
             id      == Len(luids) + 1
         IN  /\ lcu[c].pc = "idle"
             /\ luids' = Append(luids, uid)
             /\ IF IsUid1001(uid)
                  THEN /\ lcu' = [lcu EXCEPT ![c] = [pc |-> "file", id |-> id, file |-> call.file,
                                                     mask |-> call.mask,
                                                     command |-> CharArray(command)]]
                       /\ lrets' = lrets
                  ELSE /\ lrets' = Append(lrets, [id |-> id, ret |-> 0])
                       /\ lcu' = lcu
    /\ UNCHANGED <<lloaded, ltrace>>
    /\ UNCHANGED <<tailVars, cfgVars, mapVars, uidShown>>

\* bpf_trace_printk("File %s mask %x", f->f_path.dentry->d_iname, mask);
LsmPrintFile ==
    /\ \E c \in CPUs :
         /\ lcu[c].pc = "file"
         /\ ltrace' = Append(ltrace, [id |-> lcu[c].id, fmt |-> "File %s mask %x",
                                      args |-> <<lcu[c].file, lcu[c].mask>>])
         /\ lcu' = [lcu EXCEPT ![c].pc = "command"]
    /\ UNCHANGED <<lloaded, luids, lrets>>
    /\ UNCHANGED <<tailVars, cfgVars, mapVars, uidShown>>

\* bpf_trace_printk("     opened by: %s", command); return 0;
LsmPrintCommand ==
    /\ \E c \in CPUs :
         /\ lcu[c].pc = "command"
         /\ ltrace' = Append(ltrace, [id |-> lcu[c].id, fmt |-> "     opened by: %s",
                                      args |-> <<lcu[c].command>>])
         /\ lrets' = Append(lrets, [id |-> lcu[c].id, ret |-> 0])
         /\ lcu' = [lcu EXCEPT ![c] = NotChecking]
    /\ UNCHANGED <<lloaded, luids>>
    /\ UNCHANGED <<tailVars, cfgVars, mapVars, uidShown>>

LsmNext ==
    \/ LsmLoad
    \/ LsmEnter
    \/ LsmPrintFile
    \/ LsmPrintCommand

(***************************************************************************)
(* The UID through one firing of the chapter04 hello and its callback: the *)
(* u32 of bpf_get_current_uid_gid() is stored in `int uid` of data_t, used *)
(* as the lookup key, and read back by the callback as a ctypes c_int.     *)
(***************************************************************************)

\* Effective UIDs over the whole 32-bit range, as two 16-bit limbs.
UidInputs == {0, 1, 501, 1000, 1001, 32767, 32768, 65534, 65535}
                \X {0, 1, 32767, 32768, 65535}

\* A task of the effective UID uid calling execve.
UidCtx(uid) ==
    [tgid |-> 1, tid |-> 1, uid |-> uid, gid |-> <<0, 0>>, comm |-> <<108, 115>>, cpu |-> 0]

UidInit == uidShown = [fired |-> FALSE, input |-> <<0, 0>>, subject_uid |-> 0, key |-> <<0, 0>>]

\* One firing of hello for a task of some UID, its record passed to
\* print_event: the UID the callback shows and the key of the lookup.
UidEvent ==
    /\ \E uid \in UidInputs :
         LET r == HelloOf(prog, config, UidCtx(uid))
         IN  uidShown' = [fired |-> TRUE, input |-> uid,
                          subject_uid |-> print_event(0, r.data).uid,
                          key |-> LookupKey(r.data)]
    /\ UNCHANGED <<tailVars, cfgVars, mapVars, lsmVars>>

\* The chapter04 programs with hello in two steps, so that the control
\* program's statements fall between a lookup and the copy that uses it.
RaceNext ==
    \/ CfgLoad
    \/ CfgAttach
    \/ CfgSeed0
    \/ CfgSeed501
    \/ CfgOpen
    \/ CfgHelloLookup
    \/ CfgHelloSubmit

vars == <<tailVars, cfgVars, mapVars, lsmVars, uidShown>>

Init == TailInit /\ CfgInit /\ MapInit /\ LsmInit /\ UidInit

SpecTail == Init /\ [][TailNext]_vars

SpecCfg == Init /\ [][CfgNext]_vars

RaceInit == Init /\ prog # "buffer"

SpecRace == RaceInit /\ [][RaceNext]_vars

SpecMap == Init /\ [][MapNext]_vars

SpecLsm == Init /\ [][LsmNext]_vars

SpecUid == Init /\ [][UidEvent]_vars

\* The control program runs its next statement.
CfgStatement == CfgSeed0 \/ CfgSeed501 \/ CfgOpen \/ CfgEnterLoop

\* hello-buffer-config.py and hello-ring-buffer-config.py under a scheduler
\* that keeps running the control program: a script statement that can run
\* does run, and the poll inside `while True` returns when records wait in
\* the channel.
SpecCfgLive ==
    /\ RaceInit
    /\ [][CfgNext]_vars
    /\ WF_vars(CfgStatement)
    /\ WF_vars(CfgPoll)

(***************************************************************************)
(* Claims about chapter02/hello-tail.py                                    *)
(***************************************************************************)

InBounds(opcode) == opcode >= 0 /\ opcode < TableSize

Fired == last.phase # "none"

Diagnostic(opcode) == << [fn |-> "hello", text |-> "Another syscall: %d", arg |-> opcode] >>

\* C1: once the fill pass is complete and before any override, dispatching
\* any in-bounds opcode jumps to ignore_opcode and the dispatcher never emits
\* its "Another syscall" diagnostic: for every opcode 0..499 against the
\* table of that state, and for every firing that ran in that phase.
C1_DefaultedReachesIgnore ==
    /\ Phase = "Defaulted" =>
         \A o \in 0 .. TableSize - 1 :
            /\ hello(prog_array, U64(o)).target = "ignore_opcode"
            /\ hello(prog_array, U64(o)).lines = << >>
    /\ (last.phase = "Defaulted" /\ InBounds(last.opcode)) =>
         (last.target = "ignore_opcode" /\ last.own = << >>)

C1_Witness ==
    /\ Phase = "Defaulted"
    /\ last.phase = "Defaulted"
    /\ last.opcode = 499
    /\ last.target = "ignore_opcode"

\* The handler the finished table is meant to hold for an opcode.
Expected(o) ==
    CASE o = 59               -> "hello_exec"
      [] o >= 222 /\ o <= 226 -> "hello_timer"
      [] OTHER                -> "ignore_opcode"

\* C2: after all installs, opcode 59 reaches hello_exec, 222..226 reach
\* hello_timer, and every other in-bounds opcode reaches ignore_opcode, which
\* writes nothing.
C2_OverridesRouteAndOthersIgnored ==
    /\ Phase = "Specialized" =>
         \A o \in 0 .. TableSize - 1 :
            /\ hello(prog_array, U64(o)).target = Expected(o)
            /\ Expected(o) = "ignore_opcode" => hello(prog_array, U64(o)).lines = << >>
    /\ (last.phase = "Specialized" /\ InBounds(last.opcode)) =>
         /\ last.target = Expected(last.opcode)
         /\ last.target = "ignore_opcode" => last.lines = << >>

C2_Witness ==
    /\ tpc = "trace_print"
    /\ last.phase = "Specialized"
    /\ last.opcode = 7
    /\ last.target = "ignore_opcode"
    /\ last.lines = << >>
    /\ hello(prog_array, U64(59)).target = "hello_exec"
    /\ hello(prog_array, U64(222)).target = "hello_timer"

\* C3: the dispatcher is live on sys_enter only once the table is defaulted
\* and specialized, and no dispatch runs while a slot is still empty.
C3_LiveOnlyWhenSpecialized ==
    /\ HookLive => Phase = "Specialized"
    /\ Fired => last.phase \notin {"Built", "Filling"}

\* C4: an opcode outside the table (>= 500, or negative) selects no slot and
\* no handler: the jump fails and the firing falls through to the diagnostic.
C4_OutOfBoundsFallsThrough ==
    /\ \A a \in Args1 :
         ~InBounds(Opcode(a)) =>
            /\ hello(prog_array, a).slot = -1
            /\ hello(prog_array, a).target = Empty
            /\ hello(prog_array, a).lines = Diagnostic(Opcode(a))
    /\ (Fired /\ ~InBounds(last.opcode)) =>
         (last.slot = -1 /\ last.target = Empty /\ last.lines = Diagnostic(last.opcode))

C4_Witness ==
    /\ last.phase = "Specialized"
    /\ last.opcode < 0
    /\ last.target = Empty
    /\ last.slot = -1

\* C5 as stated: syscall.call is never invoked with an opcode outside 0..499.
C5_CallOnlyInBounds == Fired => InBounds(last.called)

\* C5 as amended: the dispatcher hands every opcode to syscall.call
\* unvalidated; the bounds are checked inside the jump on every attempt, so a
\* slot is read only for an opcode in 0..499 (and then it is that opcode's
\* slot), and an opcode outside 0..499 reads no slot.
C5_JumpChecksBounds ==
    Fired =>
       /\ last.called = Opcode(last.arg)
       /\ InBounds(last.called) => last.slot = last.called
       /\ ~InBounds(last.called) => last.slot = -1
       /\ last.slot # -1 => last.slot \in DOMAIN prog_array

C5_Witness ==
    /\ Fired
    /\ last.called = 500
    /\ last.slot = -1

\* C6: every firing ends in exactly one of two ways: the jump succeeded and
\* the dispatcher itself emitted nothing, or the jump failed (empty slot or
\* opcode out of bounds) and the dispatcher emitted exactly the one line
\* "Another syscall: <opcode>" and returned 0.
JumpFails(table, opcode) == ~InBounds(opcode) \/ table[opcode] = Empty

C6_JumpOrOneDiagnostic ==
    /\ \A a \in Args1 :
         LET r == hello(prog_array, a)
         IN  /\ JumpFails(prog_array, r.opcode) <=> r.target = Empty
             /\ r.target # Empty => r.own = << >>
             /\ r.target = Empty => (r.own = Diagnostic(r.opcode) /\ r.lines = r.own /\ r.ret = 0)
    /\ Fired =>
         \/ last.target # Empty /\ last.own = << >>
         \/ last.target = Empty /\ last.own = Diagnostic(last.opcode) /\ last.ret = 0

C6_Witness ==
    /\ last.phase = "Filling"
    /\ last.opcode = 499
    /\ last.target = Empty
    /\ last.own = Diagnostic(499)

(***************************************************************************)
(* Claims about the chapter04 programs                                     *)
(***************************************************************************)

Min(a, b) == IF a < b THEN a ELSE b

Delivered(i) == delivered[i]

\* C7: for a triggering event whose UID has no config entry the message of
\* the record is the default "Hello World"; for a UID with an entry it is
\* that entry's value cut to the 12-byte message field (both programs).
C7_LookupOrDefault ==
    /\ \A ctx \in Ctxs :
         LET r == hello_cfg(config, ctx)
         IN  /\ ctx.uid \notin DOMAIN config =>
                   /\ r.data.message = DefaultMessage
                   /\ CharArray(r.data.message) = HelloWorld
             /\ ctx.uid \in DOMAIN config =>
                   r.data.message = SubSeq(config[ctx.uid], 1, MsgCap)
    /\ lastEv.fired =>
         /\ ~lastEv.found => lastEv.message = DefaultMessage
         /\ lastEv.found => lastEv.message = SubSeq(lastEv.value, 1, MsgCap)

C7_Witness ==
    /\ \E i \in 1 .. Len(delivered) :
          Delivered(i).uid = 42 /\ Delivered(i).message = HelloWorld
    /\ \E i \in 1 .. Len(delivered) :
          Delivered(i).uid = 0 /\ Delivered(i).message = HeyRoot
    /\ <<42, 0>> \notin DOMAIN config

C10_ValueFitsMessageField == ValueCap(prog) <= MsgCap

(***************************************************************************)
(* Claims about the record codec and the channel                           *)
(***************************************************************************)

\* The text of a fixed-size field: its bytes up to the first terminator, or
\* all of it when it holds none.
TextOf(b) ==
    LET n == CHOOSE k \in 0 .. Len(b) :
                /\ \A j \in 1 .. k : b[j] # 0
                /\ k = Len(b) \/ b[k + 1] = 0
    IN  SubSeq(b, 1, n)

\* The callback read from record rec exactly the fields the producer put in.
SameFields(out, rec) ==
    /\ ~out.raised
    /\ out.pid = rec.pid
    /\ out.uid = rec.uid
    /\ out.command = TextOf(rec.command)
    /\ out.message = TextOf(rec.message)

\* C11: every record the producer published comes out of the display
\* callback with the same pid, uid, command text and message text (the text
\* of a field being its bytes up to the first terminator or its capacity).
C11_RoundTrip ==
    \A i \in 1 .. Len(delivered) :
       /\ ~delivered[i].raised
       /\ \E j \in 1 .. Len(accepted) : SameFields(delivered[i], accepted[j].rec)

\* The byte at position i of array b, a NUL behind its end.
ByteOr0(b, i) == IF i <= Len(b) THEN b[i] ELSE 0

\* The message selected for an event of task t: the config value stored for
\* its uid when the program has one, the default text otherwise.
Selected(t) ==
    IF prog # "buffer" /\ t.uid \in DOMAIN config THEN config[t.uid] ELSE HelloWorld

\* Every byte of record rec comes from task t (pid, uid, the comm, which
\* always leaves room for a terminator) or from the message selected for t,
\* and is zero otherwise.
BuiltFrom(rec, t) ==
    /\ rec.pid = t.tgid
    /\ ToU32(rec.uid) = t.uid
    /\ Len(rec.command) = CommCap
    /\ \A i \in 1 .. CommCap :
          rec.command[i] = IF i < CommCap THEN ByteOr0(t.comm, i) ELSE 0
    /\ Len(rec.message) = MsgCap
    /\ \A i \in 1 .. MsgCap : rec.message[i] = ByteOr0(Selected(t), i)

CallbackCpu(c) == IF UsesPerf(prog) THEN c ELSE NoCpu

\* What the callback makes of the records of history h, one after another.
Shown(h) == [i \in 1 .. Len(h) |-> print_event(CallbackCpu(h[i].cpu), h[i].rec)]

\* All records published so far were submitted on one CPU.
SingleSource == \A i, j \in 1 .. Len(accepted) : accepted[i].cpu = accepted[j].cpu

SomeDrop == nev > Len(accepted)

\* C14: with the ring, records reach the callback in the order of their
\* submission, whichever CPUs the producers ran on and whatever was dropped:
\* what has been delivered, followed by what still waits in the ring, is
\* the sequence of accepted records in submission order.
C14_RingKeepsSubmissionOrder ==
    prog = "ring" =>
       delivered \o Shown([i \in 1 .. Len(ring) |-> [cpu |-> NoCpu, rec |-> ring[i]]])
          = Shown(accepted)

\* Producers on both CPUs, a dropped attempt, and both records delivered.
C14_Witness ==
    /\ prog = "ring"
    /\ SomeDrop
    /\ Len(delivered) = 2
    /\ \E i, j \in 1 .. Len(accepted) :
          i < j /\ accepted[i].cpu = 1 /\ accepted[j].cpu = 0
                /\ accepted[i].rec # accepted[j].rec

\* The entries of sequence h (records with a cpu field) that belong to CPU c.
OfCpu(h, c) == SelectSeq(h, LAMBDA e : e.cpu = c)

\* C15: with the per-CPU perf buffer (hello-buffer.py, hello-buffer-config.py)
\* the records submitted on one CPU reach the callback in the order of their
\* submission: per CPU, what was delivered followed by what still waits in
\* that CPU's buffer is what that CPU submitted, in order.  Records of
\* different CPUs may reach the callback in another order than they were
\* submitted in (the witness).
C15_PerCpuOrder ==
    UsesPerf(prog) =>
       \A c \in CPUs :
          OfCpu(delivered, c)
             \o Shown([i \in 1 .. Len(perf[c]) |-> [cpu |-> c, rec |-> perf[c][i]]])
          = Shown(OfCpu(accepted, c))

\* CPU 1 submitted first, then CPU 0 twice; the poll delivered the two
\* records of CPU 0 in their order and before the record of CPU 1.
C15_Witness ==
    /\ UsesPerf(prog)
    /\ Len(accepted) = 3
    /\ accepted[1].cpu = 1 /\ accepted[2].cpu = 0 /\ accepted[3].cpu = 0
    /\ accepted[2].rec # accepted[3].rec
    /\ delivered = Shown(<<accepted[2], accepted[3], accepted[1]>>)
    /\ delivered # Shown(accepted)

\* C16: a firing of the probe that finds the ring full drops its record
\* silently: hello returns 0, the ring keeps exactly the records it held,
\* in their order, nothing is delivered or recorded as accepted, and no
\* state other than the record just built changes (there is no drop
\* counter and no diagnostic).
C16_RingFullDropsSilently ==
    [][ (prog = "ring" /\ nev' = nev + 1 /\ Len(ring) = RingCap) =>
           /\ ring' = ring
           /\ accepted' = accepted
           /\ delivered' = delivered
           /\ lastEv'.fired /\ ~lastEv'.accepted /\ lastEv'.ret = 0
           /\ UNCHANGED <<cpc, config, kattached, opened, perf, polling, npoll>> ]_vars

\* After a drop on the full ring, the poll delivered the two queued records
\* in their order.
C16_Witness ==
    /\ prog = "ring"
    /\ nev = RingCap + 1
    /\ Len(accepted) = RingCap
    /\ lastEv.fired /\ ~lastEv.accepted /\ lastEv.ret = 0
    /\ ring = << >>
    /\ delivered = Shown(accepted)
    /\ delivered[1] # delivered[2]

\* The state of the structured channel as the control program sees it.
ChannelState ==
    IF ~opened THEN "Uninitialized" ELSE IF ~polling THEN "Open" ELSE "Polling"

\* The positions of statement st in the control program.
Positions(st) == { i \in DOMAIN Script(prog) : Script(prog)[i] = st }

\* C19: the channel goes Uninitialized -> Open -> Polling and nowhere else.
\* The control program has one statement that registers the callback; the
\* channel is never polled unopened; a step changes the state only from
\* Uninitialized to Open or from Open to Polling; once Polling it stays
\* Polling (never closed or opened again); the callback runs only while
\* Polling.
C19_ChannelLifecycle ==
    /\ [](/\ Cardinality(Positions("open")) = 1
          /\ polling => opened)
    /\ [][ /\ ChannelState' # ChannelState =>
                \/ ChannelState = "Uninitialized" /\ ChannelState' = "Open"
                \/ ChannelState = "Open" /\ ChannelState' = "Polling"
           /\ ChannelState = "Polling" => ChannelState' = "Polling"
           /\ delivered' # delivered => ChannelState = "Polling" ]_vars

\* The channel is Polling and the callback has run after several polls.
C19_Witness ==
    /\ ChannelState = "Polling"
    /\ npoll >= 2
    /\ Len(delivered) >= 2

\* C20: showing a record never fails: whatever bytes the command and the
\* message of a delivered record hold, the callback prints a line for it
\* (no decode raises) and the poll loop goes on.
C20_CallbackNeverFails ==
    /\ \A i \in 1 .. Len(delivered) : ~delivered[i].raised
    /\ polling => At("poll")

(***************************************************************************)
(* Claims about concurrency                                                *)
(***************************************************************************)

\* The values the control program's statements can write for key: the text
\* handed to the store with what follows it up to the value capacity.
SeededValues(key) ==
    LET leaf == IF key = ToU32(0) THEN create_string_buffer(HeyRoot)
                ELSE IF key = ToU32(501) /\ prog = "perf" THEN create_string_buffer(HiUser501)
                ELSE << >>
    IN  IF leaf = << >> THEN {}
        ELSE { MapValue(leaf, ValueCap(prog), tail) :
                  tail \in Junk(TailLen(leaf, ValueCap(prog))) }

\* Message m is the default message or the first 12 bytes of one whole value
\* written for the key of uid.
WholeMessage(m, uid) ==
    \/ m = DefaultMessage
    \/ \E v \in SeededValues(ToU32(uid)) : m = SubSeq(v, 1, MsgCap)

\* C17: whatever the control program writes to the config store between a
\* hello's lookup and its copy, the message of the record hello builds, and
\* of every record published, is the default message or the cut of one
\* whole value written for the key of its uid, never a mixture; a lookup
\* that found an entry copies that entry's value.
C17_LookupSeesWholeValue ==
    /\ lastEv.fired =>
          /\ WholeMessage(lastEv.message, lastEv.uid)
          /\ lastEv.found => lastEv.message = SubSeq(lastEv.value, 1, MsgCap)
    /\ \A j \in 1 .. Len(accepted) :
          WholeMessage(accepted[j].rec.message, accepted[j].rec.uid)
    /\ \A c \in CPUs :
          inflight[c].busy /\ inflight[c].found => inflight[c].key \in DOMAIN config

\* A hello for uid 0 that found no entry is between its lookup and its copy
\* while the control program has written key 0; another hello, which looked
\* the key up after that write, has built its record from the value.
C17_Witness ==
    /\ <<0, 0>> \in DOMAIN config
    /\ \E c \in CPUs :
          /\ inflight[c].busy
          /\ inflight[c].data.uid = 0
          /\ ~inflight[c].found
    /\ lastEv.fired
    /\ lastEv.uid = 0
    /\ lastEv.found
    /\ CharArray(lastEv.message) = HeyRoot

\* count_up runs on no CPU.
AllIdle == \A c \in CPUs : cu[c].pc = "idle"

\* C18: in hello-map.py the counter of a UID never exceeds the number of
\* count_up invocations for that UID, and every invocation returns 0, a
\* lost increment included.  That two invocations for the same UID on
\* different CPUs can lose an increment is the witness: both completed, the
\* counter shows one.
C18_CounterNeverAboveInvocations ==
    /\ \A uid \in DOMAIN counter_table :
          /\ uid \in Uids
          /\ counter_table[uid] <= invoked[uid]
          /\ completed[uid] <= invoked[uid]
          /\ completed[uid] >= 1 => counter_table[uid] >= 1
    /\ \A uid \in Uids : uid \notin DOMAIN counter_table => invoked[uid] = 0
    /\ mret = 0

C18_Witness ==
    /\ AllIdle
    /\ \E uid \in DOMAIN counter_table :
          /\ completed[uid] = 2
          /\ invoked[uid] = 2
          /\ counter_table[uid] = 1
    /\ mret = 0

(***************************************************************************)
(* Claims about startup, the table's construction and the handlers         *)
(***************************************************************************)

\* C21: a run of hello-tail.py that ended on a failed load, attach or
\* load_func has never had its dispatcher attached, so that no firing ran
\* while the setup was incomplete.
C21_AbortLeavesNothingLive ==
    tpc = "aborted" =>
       /\ ~attached
       /\ fired = 0

Slots == 0 .. TableSize - 1

Specific == {"hello_exec", "hello_timer"}

\* No slot of the table holds a specific handler; no slot is empty.
NoneSpecific == prog_array \in [Slots -> {Empty, "ignore_opcode"}]

NoneEmpty == prog_array \in [Slots -> {"ignore_opcode"} \cup Specific]

\* C22: every write to the table is either a default written into an empty
\* slot while no slot holds a specific handler yet, or a specific handler
\* written over a default once no slot is empty any more; so the whole
\* range is defaulted before the first override, no override lands in an
\* empty slot and no overridden slot is written again.  A firing of the
\* dispatcher writes nothing to the table.
C22_FillBeforeOverride ==
    [][ IF fired' # fired
          THEN prog_array' = prog_array
          ELSE \A s \in Slots :
                  prog_array'[s] # prog_array[s] =>
                     \/ /\ prog_array[s] = Empty
                        /\ prog_array'[s] = "ignore_opcode"
                        /\ NoneSpecific
                     \/ /\ prog_array[s] = "ignore_opcode"
                        /\ prog_array'[s] \in Specific
                        /\ NoneEmpty ]_vars

\* The first override has been written, over a default; the next one has
\* not, and its slot holds the default.
C22_Witness ==
    /\ ov_k = 2
    /\ prog_array[59] = "hello_exec"
    /\ prog_array[222] = "ignore_opcode"
    /\ \A t \in Slots : prog_array[t] # Empty

\* The line hello_timer is to emit for opcode op.
TimerText(op) ==
    IF op = 222 THEN "Creating a timer"
    ELSE IF op = 226 THEN "Deleting a timer"
    ELSE "Some other timer operation"

\* C27: a firing that reached hello_timer through the table emitted exactly
\* one line, chosen by the opcode: "Creating a timer" for 222, "Deleting a
\* timer" for 226, "Some other timer operation" for 223, 224 and 225; and
\* so would a firing for each of these opcodes on the table as it is.
C27_TimerLineByOpcode ==
    /\ last.target = "hello_timer" =>
          /\ last.opcode \in 222 .. 226
          /\ Len(last.lines) = 1
          /\ last.lines[1].fn = "hello_timer"
          /\ last.lines[1].text = TimerText(last.opcode)
    /\ \A op \in 222 .. 226 :
          prog_array[op] = "hello_timer" =>
             LET r == hello(prog_array, U64(op))
             IN  /\ r.target = "hello_timer"
                 /\ Len(r.lines) = 1
                 /\ r.lines[1].text = TimerText(op)

\* Firings for 226 reached hello_timer with all five timer slots set.
C27_Witness ==
    /\ last.target = "hello_timer"
    /\ last.opcode = 226
    /\ last.lines[1].text = "Deleting a timer"
    /\ \A op \in 222 .. 226 : prog_array[op] = "hello_timer"
    /\ hello(prog_array, U64(224)).lines[1].text = "Some other timer operation"

\* The tail jumps made in the last firing.
JumpsMade == Len(last.chain) - 1

NoOverlap == \A u \in Uids : ~overlapped[u]

\* C26: in hello-map.py, as long as no two count_up invocations for a UID
\* have overlapped, the counter of a UID equals the number of completed
\* invocations for it, and with no invocation in progress it equals the
\* number of execve entries plus the number of execveat entries made under
\* that UID (1 after the first); a UID with no such entry has no entry in
\* the table.
C26_CountsEntries ==
    /\ NoOverlap =>
          \A uid \in DOMAIN counter_table :
             /\ counter_table[uid] = completed[uid]
             /\ AllIdle => counter_table[uid] = Entered(uid)
    /\ \A uid \in Uids : Entered(uid) = 0 <=> uid \notin DOMAIN counter_table

C26_Witness ==
    /\ NoOverlap
    /\ AllIdle
    /\ \E uid \in DOMAIN counter_table :
          /\ entries["sys_enter_execve"][uid] = 1
          /\ entries["sys_enter_execveat"][uid] = 1
          /\ counter_table[uid] = 2
    /\ \E uid \in Uids : uid \notin DOMAIN counter_table

\* dumps holds two successive dumps, the earlier one first.
Shows(i, uid) == IF uid \in DOMAIN dumps[i] THEN dumps[i][uid] ELSE -1

\* C29 as stated: of two successive dumps, the later one never shows a smaller value
\* for a UID than the earlier one.
C29_DumpsNeverDecrease ==
    \A i, j \in 1 .. Len(dumps) :
       i < j => \A uid \in DOMAIN dumps[i] : Shows(j, uid) >= dumps[i][uid]

\* C29, amended: a UID shown by a dump is shown by the next dump, and
\* its value in the next dump is not smaller provided that no two count_up
\* invocations for that UID have overlapped.
C29_DumpsNeverDecreaseWithoutOverlap ==
    \A i, j \in 1 .. Len(dumps) :
       i < j =>
          \A uid \in DOMAIN dumps[i] :
             /\ uid \in DOMAIN dumps[j]
             /\ ~overlapped[uid] => dumps[j][uid] >= dumps[i][uid]

C29_Witness ==
    /\ Len(dumps) = 2
    /\ \E uid \in DOMAIN dumps[1] :
          /\ ~overlapped[uid]
          /\ dumps[1][uid] = 1
          /\ dumps[2][uid] = 2

(***************************************************************************)
(* Claims about the config store and the poll loop of chapter04            *)
(***************************************************************************)

\* A step of the control program that writes the store.
SeedStep == At("seed0") \/ At("seed501")

\* C24: the config store changes only in an upsert of the control program:
\* a step that changes it is a seed statement that writes one key and
\* leaves every other entry as it was; a firing of hello (nev grows), a
\* lookup of an absent key included, leaves the store as it was; and no
\* step removes a key.
C24_OnlyControlWritesConfig ==
    [][ /\ config' # config =>
              /\ SeedStep
              /\ cpc' = cpc + 1
              /\ nev' = nev
              /\ \E key \in DOMAIN config' :
                    \A k \in DOMAIN config' \ {key} :
                       k \in DOMAIN config /\ config'[k] = config[k]
        /\ nev' # nev => config' = config
        /\ DOMAIN config \subseteq DOMAIN config' ]_vars

C24_Witness ==
    /\ prog = "perf"
    /\ DOMAIN config = {ToU32(0), ToU32(501)}
    /\ lastEv.fired
    /\ ~lastEv.found
    /\ lastEv.uid = 42
    /\ nev = 2


\* The n-th record accepted into the channel has been passed to the
\* callback: delivered holds what the callback makes of it, and at least n
\* records were delivered.
Passed(n) ==
    /\ Len(delivered) >= n
    /\ \E i \in 1 .. Len(delivered) :
          delivered[i] = print_event(CallbackCpu(accepted[n].cpu), accepted[n].rec)

\* Every record accepted so far has been passed to the callback.
AllPassed ==
    /\ Len(delivered) = Len(accepted)
    /\ \A n \in 1 .. Len(accepted) : Passed(n)

\* C25: under a scheduler that keeps running the control program, every
\* record accepted into the channel is eventually passed to the callback
\* (accepted and delivered only grow, so this is: again and again all the
\* records accepted so far have been passed), and the poll loop, once
\* entered, is never left.
C25_AcceptedIsDelivered ==
    /\ []<>AllPassed
    /\ [][polling => polling' /\ cpc' = cpc]_vars

C25_Witness ==
    /\ polling
    /\ npoll = 2
    /\ Len(accepted) = 3
    /\ \A n \in 1 .. 3 : Passed(n)
    /\ accepted[1].cpu # accepted[2].cpu


(***************************************************************************)
(* Claims about chapter09/hello-lsm.py and about the UID field            *)
(***************************************************************************)

\* The lines a firing has written to the trace pipe, in order.
LinesOf(id) == SelectSeq(ltrace, LAMBDA l : l.id = id)

Returned(id) == \E i \in 1 .. Len(lrets) : lrets[i].id = id

\* C28: every firing of the security_file_permission probe of hello-lsm.py
\* returns 0, and it writes to the log exactly when the current UID is
\* 1001: a firing for another UID writes no line; a firing for UID 1001
\* writes the "File ... mask ..." line first and the "opened by" line
\* second, and has written exactly these two when it returns.
C28_LogsOnlyUid1001 ==
    /\ \A i \in 1 .. Len(lrets) : lrets[i].ret = 0
    /\ \A id \in 1 .. Len(luids) :
          LET lines == LinesOf(id)
          IN  /\ luids[id] # <<1001, 0>> => lines = << >> /\ Returned(id)
              /\ luids[id] = <<1001, 0>> =>
                    /\ Len(lines) <= 2
                    /\ Len(lines) >= 1 => lines[1].fmt = "File %s mask %x"
                    /\ Len(lines) = 2 => lines[2].fmt = "     opened by: %s"
                    /\ Returned(id) <=> Len(lines) = 2
    /\ \A i \in 1 .. Len(ltrace) : ltrace[i].id \in 1 .. Len(luids)

C28_Witness ==
    /\ Len(lrets) = 2
    /\ luids = << <<1001, 0>>, <<1001, 1>> >>
    /\ ltrace = << [id |-> 1, fmt |-> "File %s mask %x", args |-> <<"a.txt", 2>>],
                   [id |-> 1, fmt |-> "     opened by: %s", args |-> << <<99, 97, 116>> >>] >>

\* C23 as stated: the subject_uid the callback shows is the effective UID
\* of the task, for every 32-bit UID, and the lookup key is that UID.
C23_ShownUidIsEffectiveUid ==
    uidShown.fired =>
       /\ uidShown.subject_uid >= 0
       /\ uidShown.subject_uid % Limb = uidShown.input[1]
       /\ uidShown.subject_uid \div Limb = uidShown.input[2]
       /\ prog # "buffer" => uidShown.key = uidShown.input


(***************************************************************************)
(* Claims about publishing and delivery in chapter04                       *)
(***************************************************************************)

\* The records waiting in the channel, as a poll would read them, and what
\* the callback would make of them.
ChannelRecs == IF UsesPerf(prog) THEN Drain(perf, CPUs) ELSE DrainRing(ring)

Waiting == [i \in 1 .. Len(ChannelRecs) |->
               print_event(ChannelRecs[i].cpu, ChannelRecs[i].rec)]

\* How often x occurs in the sequence h.
Count(h, x) == Cardinality({ i \in 1 .. Len(h) : h[i] = x })

Elements(h) == { h[i] : i \in 1 .. Len(h) }

\* The number of records waiting in the channel.
InChannel ==
    IF UsesPerf(prog)
    THEN Cardinality(UNION { {c} \X (1 .. Len(perf[c])) : c \in CPUs })
    ELSE Len(ring)

\* C31: each firing of hello makes exactly one publish attempt (a step that
\* is a firing sets the outcome of its attempt, adds at most its one record
\* to the channel and to the accepted records, exactly when the attempt was
\* accepted, and delivers nothing; no other step adds a record); every
\* record passed to the callback was published by a firing and is passed
\* once per publication (per record value, the deliveries plus the copies
\* still waiting are the publications), so the callbacks never outnumber
\* the firings.
C31_OnePublishPerFiring ==
    /\ [] /\ Len(delivered) <= nev
          /\ Len(accepted) <= nev
          /\ InChannel = Len(ChannelRecs)
          /\ \E w \in {Waiting}, a \in {Shown(accepted)} :
                \A x \in Elements(delivered) \cup Elements(w) \cup Elements(a) :
                   Count(delivered, x) + Count(w, x) = Count(a, x)
    /\ [][ IF nev' # nev
             THEN /\ nev' = nev + 1
                  /\ lastEv'.fired
                  /\ delivered' = delivered
                  /\ Len(accepted') = Len(accepted) + (IF lastEv'.accepted THEN 1 ELSE 0)
                  /\ SubSeq(accepted', 1, Len(accepted)) = accepted
                  /\ InChannel' = InChannel + (IF lastEv'.accepted THEN 1 ELSE 0)
             ELSE /\ accepted' = accepted
                  /\ InChannel' <= InChannel
                  /\ Len(delivered') - Len(delivered) = InChannel - InChannel' ]_vars

\* Three firings of the perf program: the first was lost before the channel
\* was opened, the other two published equal records, and the poll passed
\* each of them to the callback once.
C31_Witness ==
    /\ prog = "perf"
    /\ nev = 3
    /\ Len(accepted) = 2
    /\ delivered = Shown(accepted)
    /\ delivered[1] = delivered[2]
    /\ InChannel = 0

====
